---- MODULE Spec2Model ----
(***************************************************************************)
(* Model of src/main.js: the recursive structural comparison               *)
(* _assertEquals, the wrapper assertEquals, the collector runTest and the  *)
(* batch runAll.                                                           *)
(*                                                                         *)
(* A JavaScript value is a record tagged by t:                             *)
(*   null     [t |-> "null"]                                               *)
(*   string   [t |-> "string",  s |-> "abc"]                               *)
(*   number   [t |-> "number",  n |-> 1, nan |-> FALSE]   (NaN: nan=TRUE)  *)
(*   boolean  [t |-> "boolean", b |-> TRUE]                                *)
(*   array    [t |-> "array",   elems |-> <<v0, v1, ...>>]                 *)
(*   record   [t |-> "record",  props |-> << <<key, value>>, ... >>]       *)
(* The props of a record are listed in for-in enumeration order; keys are  *)
(* unique.  Keys that shadow a member inherited from Object.prototype      *)
(* (such as "hasOwnProperty") are outside the model: the specification     *)
(* declares inherited-property semantics a non-goal.                       *)
(* Object identity (===  on arrays and records) is modelled by the set     *)
(* `shared` of paths at which expected and actual hold the same object.    *)
(***************************************************************************)
EXTENDS Integers, Sequences, FiniteSets, TLC

VARIABLES queue, assertionFailures, message, expected, actual, shared,
          stack, pc, error, visited, passed, outcome

vars == <<queue, assertionFailures, message, expected, actual, shared,
          stack, pc, error, visited, passed, outcome>>

(***************************************************************************)
(* Bounds of the model.                                                    *)
(***************************************************************************)
MaxSize == 3
MaxLen == 3
MaxCalls == 2

(***************************************************************************)
(* Value constructors.                                                     *)
(***************************************************************************)
Null == [t |-> "null"]
Str(s) == [t |-> "string", s |-> s]
Num(n) == [t |-> "number", n |-> n, nan |-> FALSE]
NaN == [t |-> "number", n |-> 0, nan |-> TRUE]
Bool(b) == [t |-> "boolean", b |-> b]
Arr(es) == [t |-> "array", elems |-> es]
Rec(ps) == [t |-> "record", props |-> ps]

(***************************************************************************)
(* JavaScript primitives the comparison uses.                              *)
(***************************************************************************)
typeOf(v) == IF v.t \in {"null", "array", "record"} THEN "object" ELSE v.t

isArray(v) == v.t = "array"

isPrimitive(v) == typeOf(v) = "string" \/ typeOf(v) = "number" \/ typeOf(v) = "boolean"

getTypeName(v) ==
    IF isArray(v) THEN "Array"
    ELSE IF typeOf(v) = "object"
         THEN IF v.t = "null" THEN "null" ELSE "Object"
         ELSE typeOf(v)

\* '' + v for a primitive v (the string concatenation of line 41).
toStr(v) ==
    CASE v.t = "string"  -> v.s
      [] v.t = "number"  -> IF v.nan THEN "NaN" ELSE ToString(v.n)
      [] v.t = "boolean" -> IF v.b THEN "true" ELSE "false"
      [] OTHER           -> "null"

\* e === a, for the sub-values found at path p of expected and of actual.
strictEquals(e, a, p) ==
    CASE e.t # a.t          -> FALSE
      [] e.t = "null"       -> TRUE
      [] e.t = "string"     -> e.s = a.s
      [] e.t = "number"     -> ~e.nan /\ ~a.nan /\ e.n = a.n
      [] e.t = "boolean"    -> e.b = a.b
      [] OTHER              -> p \in shared

length(v) == Len(v.elems)

keys(v) == [j \in 1..Len(v.props) |-> v.props[j][1]]

hasOwnProperty(v, k) == \E j \in 1..Len(v.props) : v.props[j][1] = k

get(v, k) == v.props[CHOOSE j \in 1..Len(v.props) : v.props[j][1] = k][2]

(***************************************************************************)
(* The messages of the errors the comparison throws.                       *)
(***************************************************************************)
emitTypeError(e, a) == "type " \o getTypeName(e) \o " but found type " \o getTypeName(a)

valueErrorMessage(e, a) == "\"" \o toStr(e) \o "\" but found \"" \o toStr(a) \o "\""

\* Mutant: the two lengths change places.
lengthErrorSwapped(e, a) ==
    "Array length " \o ToString(length(a)) \o " but found " \o ToString(length(e))

lengthErrorMessage(e, a) ==
    "Array length " \o ToString(length(e)) \o " but found " \o ToString(length(a))

\* Mutant: the message of the second loop is used in the first.
missingSaidExtra(k) == k \o " to be missing but was found"

missingErrorMessage(k) == k \o " but was not found"

extraErrorMessage(k) == k \o " to be missing but was found"

\* Mutant: an array child is given the divider of a record.
dividerNoArray(child) == IF isPrimitive(child) THEN " " ELSE "."

divider(child) == IF isPrimitive(child) THEN " " ELSE IF isArray(child) THEN "" ELSE "."

indexSegment(i) == "[" \o ToString(i) \o "]"

wrapIndex(i, child, msg) == indexSegment(i) \o divider(child) \o msg

wrapKey(k, child, msg) == k \o divider(child) \o msg

\* Mutant: the space after the label is left out.
assertionMessageNoSpace(label, msg) == label \o "Expected " \o msg

assertionMessage(label, msg) == label \o " Expected " \o msg

push(failures, msg) == Append(failures, msg)

(***************************************************************************)
(* Lines 26-88 of _assertEquals: the straight-line checks made on entry,   *)
(* in the order of the code.  The result says how the call goes on:        *)
(* "return" (nothing more to do), "throw" (with the error's message),      *)
(* "array" (the loop of line 63) or "object" (the loops of lines 90, 110). *)
(***************************************************************************)
Goes(phase, msg) == [phase |-> phase, error |-> msg]

\* Mutant: primitives are compared by value before the types are.
checkValueFirst(e, a, p) ==
    IF strictEquals(e, a, p) THEN Goes("return", "")
    ELSE IF isPrimitive(e) /\ ~strictEquals(e, a, p)
         THEN Goes("throw", valueErrorMessage(e, a))
    ELSE IF typeOf(e) # typeOf(a) THEN Goes("throw", emitTypeError(e, a))
    ELSE IF e.t = "null" /\ a.t # "null" THEN Goes("throw", emitTypeError(e, a))
    ELSE IF e.t # "null" /\ a.t = "null" THEN Goes("throw", emitTypeError(e, a))
    ELSE IF isArray(e) /\ isArray(a)
         THEN IF length(e) # length(a)
              THEN Goes("throw", lengthErrorMessage(e, a))
              ELSE Goes("array", "")
    ELSE IF isArray(e) /\ ~isArray(a) THEN Goes("throw", emitTypeError(e, a))
    ELSE IF ~isArray(e) /\ isArray(a) THEN Goes("throw", emitTypeError(e, a))
    ELSE IF typeOf(e) = "object" THEN Goes("object", "")
    ELSE Goes("return", "")

check(e, a, p) ==
    IF strictEquals(e, a, p) THEN Goes("return", "")
    ELSE IF typeOf(e) # typeOf(a) THEN Goes("throw", emitTypeError(e, a))
    ELSE IF isPrimitive(e) /\ ~strictEquals(e, a, p)
         THEN Goes("throw", valueErrorMessage(e, a))
    ELSE IF e.t = "null" /\ a.t # "null" THEN Goes("throw", emitTypeError(e, a))
    ELSE IF e.t # "null" /\ a.t = "null" THEN Goes("throw", emitTypeError(e, a))
    ELSE IF isArray(e) /\ isArray(a)
         THEN IF length(e) # length(a)
              THEN Goes("throw", lengthErrorMessage(e, a))
              ELSE Goes("array", "")
    ELSE IF isArray(e) /\ ~isArray(a) THEN Goes("throw", emitTypeError(e, a))
    ELSE IF ~isArray(e) /\ isArray(a) THEN Goes("throw", emitTypeError(e, a))
    ELSE IF typeOf(e) = "object" THEN Goes("object", "")
    ELSE Goes("return", "")

\* The second loop of the record branch (lines 110-116): the positions, in
\* actual's enumeration order, of the keys expected does not have.
extraKeys(e, a) == {j \in 1..Len(a.props) : ~hasOwnProperty(e, a.props[j][1])}

firstOf(S) == CHOOSE j \in S : \A h \in S : j <= h

\* Mutant: the loop variable is not advanced.
sameIndex(i) == i

nextIndex(i) == i + 1

(***************************************************************************)
(* The call stack of _assertEquals.  A frame holds the call's arguments,   *)
(* the path of the pair from the root, where the call stands (phase) and   *)
(* its loop variable i: the array index of line 63 (from 0), or the        *)
(* position in the enumeration of expected's keys of line 90 (from 1).     *)
(* visited and passed record the paths of the pairs _assertEquals has been *)
(* called on, and of those whose call has returned, during the current     *)
(* call of runTest.                                                        *)
(***************************************************************************)
Frame(e, a, p) == [expected |-> e, actual |-> a, path |-> p, phase |-> "enter", i |-> 0]

top == stack[Len(stack)]

pop(st) == SubSeq(st, 1, Len(st) - 1)

setTop(st, f) == [st EXCEPT ![Len(st)] = f]

(***************************************************************************)
(* runTest (lines 147-153) calls assertEquals (line 149), which calls      *)
(* _assertEquals on the two values (line 13).  The calls of a batch are    *)
(* taken from the queue in order.                                          *)
(***************************************************************************)
RunTest ==
    /\ pc = "idle"
    /\ queue # <<>>
    /\ message' = Head(queue).message
    /\ expected' = Head(queue).expected
    /\ actual' = Head(queue).actual
    /\ shared' = Head(queue).shared
    /\ queue' = Tail(queue)
    /\ stack' = <<Frame(Head(queue).expected, Head(queue).actual, <<>>)>>
    /\ visited' = {<<>>}
    /\ passed' = {}
    /\ error' = ""
    /\ outcome' = "running"
    /\ pc' = "run"
    /\ UNCHANGED assertionFailures

\* Lines 26-88: the checks on entry of a call of _assertEquals.
Enter ==
    /\ pc = "run"
    /\ top.phase = "enter"
    /\ LET go == check(top.expected, top.actual, top.path) IN
       /\ stack' = setTop(stack, [top EXCEPT !.phase = go.phase,
                                             !.i = IF go.phase = "object" THEN 1 ELSE 0])
       /\ error' = go.error
       /\ pc' = IF go.phase = "throw" THEN "throw" ELSE "run"
    /\ UNCHANGED <<queue, assertionFailures, message, expected, actual, shared,
                   visited, passed, outcome>>

\* Lines 63-66: one turn of the loop over the indices of the two arrays.
ArrayStep ==
    /\ pc = "run"
    /\ top.phase = "array"
    /\ IF top.i < length(top.expected)
       THEN LET p == Append(top.path, ToString(top.i)) IN
            /\ stack' = Append(stack, Frame(top.expected.elems[top.i + 1],
                                            top.actual.elems[top.i + 1], p))
            /\ visited' = visited \cup {p}
       ELSE /\ stack' = setTop(stack, [top EXCEPT !.phase = "return"])
            /\ UNCHANGED visited
    /\ UNCHANGED <<queue, assertionFailures, message, expected, actual, shared,
                   pc, error, passed, outcome>>

\* Lines 90-99: one turn of the loop over the own keys of expected.
PropStep ==
    /\ pc = "run"
    /\ top.phase = "object"
    /\ top.i <= Len(top.expected.props)
    /\ LET k == keys(top.expected)[top.i] IN
       IF ~hasOwnProperty(top.actual, k)
       THEN /\ error' = missingErrorMessage(k)
            /\ pc' = "throw"
            /\ UNCHANGED <<stack, visited>>
       ELSE LET p == Append(top.path, k) IN
            /\ stack' = Append(stack, Frame(get(top.expected, k), get(top.actual, k), p))
            /\ visited' = visited \cup {p}
            /\ UNCHANGED <<pc, error>>
    /\ UNCHANGED <<queue, assertionFailures, message, expected, actual, shared,
                   passed, outcome>>

\* Lines 110-116: the loop over the own keys of actual, entered once every key
\* of expected has been passed.
ExtraStep ==
    /\ pc = "run"
    /\ top.phase = "object"
    /\ top.i > Len(top.expected.props)
    /\ LET X == extraKeys(top.expected, top.actual) IN
       IF X # {}
       THEN /\ error' = extraErrorMessage(top.actual.props[firstOf(X)][1])
            /\ pc' = "throw"
            /\ stack' = setTop(stack, [top EXCEPT !.phase = "extra"])
       ELSE /\ stack' = setTop(stack, [top EXCEPT !.phase = "return"])
            /\ UNCHANGED <<pc, error>>
    /\ UNCHANGED <<queue, assertionFailures, message, expected, actual, shared,
                   visited, passed, outcome>>

\* A call of _assertEquals returns: to the loop that made it (lines 66, 99),
\* which goes on with its next turn, or through assertEquals (line 13) to
\* runTest (line 149), which returns.
Return ==
    /\ pc = "run"
    /\ top.phase = "return"
    /\ IF Len(stack) > 1
       THEN /\ stack' = setTop(pop(stack),
                               [stack[Len(stack) - 1] EXCEPT !.i = nextIndex(@)])
            /\ UNCHANGED <<pc, outcome>>
       ELSE /\ stack' = <<>>
            /\ pc' = "idle"
            /\ outcome' = "passed"
    /\ passed' = passed \cup {top.path}
    /\ UNCHANGED <<queue, assertionFailures, message, expected, actual, shared,
                   error, visited>>

\* Lines 67-72: the array loop catches the error of the call it made and
\* throws it again behind the index.
CatchInArray ==
    /\ pc = "throw"
    /\ Len(stack) > 1
    /\ stack[Len(stack) - 1].phase = "array"
    /\ LET f == stack[Len(stack) - 1] IN
       error' = wrapIndex(f.i, f.expected.elems[f.i + 1], error)
    /\ stack' = pop(stack)
    /\ UNCHANGED <<queue, assertionFailures, message, expected, actual, shared,
                   pc, visited, passed, outcome>>

\* Lines 100-105: the key loop catches the error of the call it made and
\* throws it again behind the key.
CatchInObject ==
    /\ pc = "throw"
    /\ Len(stack) > 1
    /\ stack[Len(stack) - 1].phase = "object"
    /\ LET f == stack[Len(stack) - 1]
           k == keys(f.expected)[f.i] IN
       error' = wrapKey(k, get(f.expected, k), error)
    /\ stack' = pop(stack)
    /\ UNCHANGED <<queue, assertionFailures, message, expected, actual, shared,
                   pc, visited, passed, outcome>>

\* Lines 14-17: assertEquals catches the error of the outermost call and
\* throws it again behind the caller's message.
CatchInAssertEquals ==
    /\ pc = "throw"
    /\ Len(stack) = 1
    /\ error' = assertionMessage(message, error)
    /\ stack' = <<>>
    /\ pc' = "failed"
    /\ UNCHANGED <<queue, assertionFailures, message, expected, actual, shared,
                   visited, passed, outcome>>

\* Lines 150-152: runTest catches the failure and records its message.
CatchInRunTest ==
    /\ pc = "failed"
    /\ assertionFailures' = push(assertionFailures, error)
    /\ pc' = "idle"
    /\ outcome' = "failed"
    /\ UNCHANGED <<queue, message, expected, actual, shared, stack, error,
                   visited, passed>>

Next ==
    \/ RunTest
    \/ Enter
    \/ ArrayStep
    \/ PropStep
    \/ ExtraStep
    \/ Return
    \/ CatchInArray
    \/ CatchInObject
    \/ CatchInAssertEquals
    \/ CatchInRunTest

(***************************************************************************)
(* The calls the model makes.                                              *)
(*                                                                         *)
(* Shapes:     every value of at most three nodes over all the kinds of    *)
(*             leaves (null, string, number, NaN, boolean),                *)
(* Nested:     every value of at most MaxSize nodes over one number,       *)
(* FlatArrays: every array of at most MaxLen numbers,                      *)
(* and the calls of runAll.                                                *)
(***************************************************************************)
Leaves == {Null, Str("1"), Num(1), NaN, Bool(TRUE)}

OneLeaf == {Num(1)}

Numbers == {Num(1), Num(2), NaN}

Keys == {"k", "m"}

KeyLists(len) == {ks \in [1..len -> Keys] : \A i, j \in 1..len : ks[i] = ks[j] => i = j}

RECURSIVE ValuesOfSize(_, _), ListsOfSize(_, _, _)

\* The lists of at most len values over the leaves L that have n nodes in all.
ListsOfSize(L, n, len) ==
    IF n = 0 THEN {<<>>}
    ELSE IF len = 0 THEN {}
    ELSE UNION {{<<v>> \o r : v \in ValuesOfSize(L, h), r \in ListsOfSize(L, n - h, len - 1)} :
                h \in 1..n}

\* The values over the leaves L that have n nodes.
ValuesOfSize(L, n) ==
    IF n = 1 THEN L \cup {Arr(<<>>), Rec(<<>>)}
    ELSE {Arr(l) : l \in ListsOfSize(L, n - 1, n)}
         \cup UNION {{Rec([j \in 1..Len(l) |-> <<ks[j], l[j]>>]) : ks \in KeyLists(Len(l))} :
                     l \in ListsOfSize(L, n - 1, Cardinality(Keys))}

Shapes == UNION {ValuesOfSize(Leaves, n) : n \in 1..3}

Nested == UNION {ValuesOfSize(OneLeaf, n) : n \in 1..MaxSize}

FlatArrays == UNION {{Arr(l) : l \in [1..len -> Numbers]} : len \in 0..MaxLen}

isObject(v) == v.t \in {"array", "record"}

\* The paths at which e and a hold equal arrays or records: the places where
\* the caller may have put one and the same object into both.
RECURSIVE SamePaths(_, _, _)
SamePaths(e, a, p) ==
    (IF isObject(e) /\ e = a THEN {p} ELSE {})
    \cup (IF isArray(e) /\ isArray(a)
          THEN UNION {SamePaths(e.elems[j], a.elems[j], Append(p, ToString(j - 1))) :
                      j \in 1..(IF length(e) < length(a) THEN length(e) ELSE length(a))}
          ELSE {})
    \cup (IF e.t = "record" /\ a.t = "record"
          THEN UNION {IF hasOwnProperty(a, e.props[j][1])
                      THEN SamePaths(e.props[j][2], get(a, e.props[j][1]),
                                     Append(p, e.props[j][1]))
                      ELSE {} : j \in 1..Len(e.props)}
          ELSE {})

Sharings(e, a) == {{}} \cup {{p} : p \in SamePaths(e, a, <<>>)}

Call(label, e, a, sh) == [message |-> label, expected |-> e, actual |-> a, shared |-> sh]

\* One call on a pair of values of V, with or without a shared object.
SingleCall(V) ==
    \E e \in V, a \in V : \E sh \in Sharings(e, a) : queue = <<Call("Test:", e, a, sh)>>

(***************************************************************************)
(* The ten calls of runAll (lines 157-200).                                *)
(***************************************************************************)
complexObject1 ==
    Rec(<< <<"propA", Num(1)>>,
           <<"propB", Rec(<< <<"propA", Arr(<<Num(1),
                                                Rec(<< <<"propA", Str("a")>>,
                                                       <<"propB", Str("b")>> >>),
                                                Num(3)>>)>>,
                             <<"propB", Num(1)>>,
                             <<"propC", Num(2)>> >>)>> >>)

complexObject1Copy == complexObject1

complexObject2 ==
    Rec(<< <<"propA", Num(1)>>,
           <<"propB", Rec(<< <<"propB", Num(1)>>,
                             <<"propA", Arr(<<Num(1),
                                                Rec(<< <<"propA", Str("a")>>,
                                                       <<"propB", Str("c")>> >>),
                                                Num(3)>>)>>,
                             <<"propC", Num(2)>> >>)>> >>)

complexObject3 ==
    Rec(<< <<"propA", Num(1)>>,
           <<"propB", Rec(<< <<"propA", Arr(<<Num(1),
                                                Rec(<< <<"propA", Str("a")>>,
                                                       <<"propB", Str("b")>> >>),
                                                Num(3)>>)>>,
                             <<"propB", Num(1)>> >>)>> >>)

runAll ==
    << Call("Test 01: ", Str("abc"), Str("abc"), {}),
       Call("Test 02: ", Str("abcdef"), Str("abc"), {}),
       Call("Test 03: ", Arr(<<Str("a")>>), Rec(<< <<"0", Str("a")>> >>), {}),
       Call("Test 04: ", Arr(<<Str("a"), Str("b")>>), Arr(<<Str("a"), Str("b"), Str("c")>>), {}),
       Call("Test 05: ", Arr(<<Str("a"), Str("b"), Str("c")>>),
                         Arr(<<Str("a"), Str("b"), Str("c")>>), {}),
       Call("Test 06: ", complexObject1, complexObject1Copy, {}),
       Call("Test 07: ", complexObject1, complexObject2, {}),
       Call("Test 08: ", complexObject1, complexObject3, {}),
       Call("Test 09: ", Null, Rec(<<>>), {}),
       Call("Test 10: ", complexObject3, complexObject1, {}) >>

\* The batches: runAll itself, and every batch of at most MaxCalls of its calls.
Batches ==
    {runAll} \cup UNION {[1..n -> {runAll[j] : j \in 1..Len(runAll)}] : n \in 2..MaxCalls}

Init ==
    /\ \/ SingleCall(Shapes)
       \/ SingleCall(Nested)
       \/ SingleCall(FlatArrays)
       \/ queue \in Batches
    /\ assertionFailures = <<>>
    /\ message = ""
    /\ expected = Null
    /\ actual = Null
    /\ shared = {}
    /\ stack = <<>>
    /\ pc = "idle"
    /\ error = ""
    /\ visited = {}
    /\ passed = {}
    /\ outcome = "none"

Spec == Init /\ [][Next]_vars

(***************************************************************************)
(* Notions the properties are stated in.                                   *)
(***************************************************************************)
\* Structural identity: the same kind and value of leaf, arrays equal element
\* by element in order, records equal as mappings from key to value.
RECURSIVE Identical(_, _)
Identical(e, a) ==
    CASE e.t # a.t       -> FALSE
      [] e.t = "null"    -> TRUE
      [] e.t = "string"  -> e.s = a.s
      [] e.t = "number"  -> e.nan = a.nan /\ (~e.nan => e.n = a.n)
      [] e.t = "boolean" -> e.b = a.b
      [] e.t = "array"   -> /\ Len(e.elems) = Len(a.elems)
                            /\ \A j \in 1..Len(e.elems) : Identical(e.elems[j], a.elems[j])
      [] OTHER           -> /\ {e.props[j][1] : j \in 1..Len(e.props)}
                               = {a.props[j][1] : j \in 1..Len(a.props)}
                            /\ \A j \in 1..Len(e.props) :
                                 Identical(e.props[j][2], get(a, e.props[j][1]))

\* The name the messages give to the classification of a value.
ClassName(v) ==
    CASE v.t = "array"  -> "Array"
      [] v.t = "record" -> "Object"
      [] OTHER          -> v.t

RECURSIVE Depth(_)
Depth(v) ==
    CASE v.t = "array"  -> 1 + (IF v.elems = <<>> THEN 0 ELSE
                                CHOOSE d \in {Depth(v.elems[j]) : j \in 1..Len(v.elems)} :
                                  \A j \in 1..Len(v.elems) : Depth(v.elems[j]) <= d)
      [] v.t = "record" -> 1 + (IF v.props = <<>> THEN 0 ELSE
                                CHOOSE d \in {Depth(v.props[j][2]) : j \in 1..Len(v.props)} :
                                  \A j \in 1..Len(v.props) : Depth(v.props[j][2]) <= d)
      [] OTHER          -> 0

Dividers == {"", " ", "."}

\* The step in which a call of runTest ends.
CallEnds == pc # "idle" /\ pc' = "idle"

\* The error in flight has just been thrown out of the frame on top.
Thrown == pc = "throw" /\ stack # <<>>

(***************************************************************************)
(* C1: compare(a, b) reports a discrepancy if and only if a and b are not  *)
(* structurally identical (records as mappings, arrays as sequences).      *)
(***************************************************************************)
C1_DiscrepancyIffNotIdentical ==
    /\ outcome = "passed" => Identical(expected, actual)
    /\ outcome = "failed" => ~Identical(expected, actual)

(***************************************************************************)
(* C2: reflexivity.  A value compared with itself, or with a separately    *)
(* built value structurally identical to it, gives no discrepancy.         *)
(***************************************************************************)
C2_Reflexivity ==
    (outcome \in {"passed", "failed"} /\ Identical(expected, actual)) =>
        (outcome = "passed" /\ assertionFailures = <<>>)

(***************************************************************************)
(* C3: runTest never raises.  A call whose values differ appends exactly   *)
(* one string, the failure message of assertEquals, to the end of the      *)
(* sink; a call whose values are equal leaves the sink as it is; no other  *)
(* step touches the sink.                                                  *)
(***************************************************************************)
C3_SinkHoldsTheDifferingCalls ==
    [][IF CallEnds
       THEN IF Identical(expected, actual)
            THEN assertionFailures' = assertionFailures
            ELSE /\ pc = "failed"
                 /\ assertionFailures' = Append(assertionFailures, error)
       ELSE assertionFailures' = assertionFailures]_vars

(***************************************************************************)
(* C4: assertEquals returns with no effect when the comparison finds no    *)
(* discrepancy, and otherwise throws an error whose message is the label,  *)
(* then ' Expected ', then the discrepancy's message.                      *)
(***************************************************************************)
C4_AssertMessage ==
    [][/\ (pc = "throw" /\ Len(stack) = 1) =>
             /\ pc' = "failed"
             /\ error' = message \o " Expected " \o error
       /\ (pc = "run" /\ Len(stack) = 1 /\ top.phase = "return") =>
             /\ pc' = "idle"
             /\ outcome' = "passed"
             /\ assertionFailures' = assertionFailures
             /\ error' = ""
       /\ (pc' = "failed") => (pc = "throw" /\ Len(stack) = 1)
       /\ (outcome' = "passed" /\ outcome # "passed") =>
             (pc = "run" /\ Len(stack) = 1 /\ top.phase = "return")]_vars

C4_Witness ==
    /\ pc = "failed"
    /\ expected = Num(1)
    /\ actual = NaN
    /\ error = "Test: Expected \"1\" but found \"NaN\""

(***************************************************************************)
(* C5: type precedence.  Wherever the two values compared, at the top or   *)
(* at a sub-position, are of different classifications (null, array,       *)
(* record, string, number, boolean), the call made on them throws          *)
(* 'type <expected's> but found type <actual's>': it does not return, it   *)
(* enters no loop and it throws no other message.                          *)
(***************************************************************************)
C5_TypePrecedence ==
    /\ \A d \in 1..Len(stack) :
         stack[d].expected.t # stack[d].actual.t =>
             \/ stack[d].phase = "enter"
             \/ /\ stack[d].phase = "throw"
                /\ d = Len(stack)
                /\ pc = "throw"
                /\ error = "type " \o ClassName(stack[d].expected)
                             \o " but found type " \o ClassName(stack[d].actual)
    /\ expected.t # actual.t =>
         /\ outcome # "passed"
         /\ pc = "failed" =>
              error = message \o " Expected type " \o ClassName(expected)
                        \o " but found type " \o ClassName(actual)

C5_Witness ==
    /\ Thrown
    /\ Len(stack) = 2
    /\ top.expected = Num(1)
    /\ top.actual = Str("1")
    /\ error = "type number but found type string"

(***************************************************************************)
(* C6: first failure only, for arrays.  When two arrays of equal length    *)
(* differ at more than one index, the discrepancy is that of the lowest    *)
(* differing index i, its message starts with '[i]', and no element at an  *)
(* index above i is compared.                                              *)
(***************************************************************************)
DifferingIndices(e, a) == {j \in 0..(length(e) - 1) : ~Identical(e.elems[j + 1], a.elems[j + 1])}

\* The array loop of the frame under the top is about to throw again the
\* error of the call it made.
ArrayCatches ==
    /\ pc = "throw"
    /\ Len(stack) > 1
    /\ stack[Len(stack) - 1].phase = "array"

C6_LowestDifferingIndex ==
    [][(ArrayCatches /\ Cardinality(DifferingIndices(stack[Len(stack) - 1].expected,
                                                      stack[Len(stack) - 1].actual)) > 1) =>
          LET f == stack[Len(stack) - 1] IN
          /\ \A j \in DifferingIndices(f.expected, f.actual) : f.i <= j
          /\ f.i \in DifferingIndices(f.expected, f.actual)
          /\ \E d \in Dividers : error' = "[" \o ToString(f.i) \o "]" \o d \o error
          /\ \A j \in 0..(length(f.expected) - 1) :
               j > f.i => Append(f.path, ToString(j)) \notin visited']_vars

(***************************************************************************)
(* C7: a comparison terminates, with a verdict of equal or with exactly    *)
(* one discrepancy, and its recursion is no deeper than the nesting of     *)
(* expected.  Termination: every step lowers Rank, a natural number that   *)
(* depends on expected alone, and a step can be taken until the batch has  *)
(* finished.                                                               *)
(***************************************************************************)
\* The steps a call of _assertEquals on expected value v takes at most: its
\* entry and its return and, for an array or a record, one turn of the loop
\* and one call for each child, and the turn that ends the loops.
RECURSIVE Work(_), WorkFrom(_, _)
\* The turns and calls for the children of v from position n (from 1) on.
WorkFrom(v, n) ==
    LET len == IF v.t = "array" THEN Len(v.elems) ELSE Len(v.props)
        child == IF v.t = "array" THEN v.elems[n] ELSE v.props[n][2] IN
    IF n > len THEN 0 ELSE 1 + Work(child) + WorkFrom(v, n + 1)

Work(v) == IF isObject(v) THEN 3 + WorkFrom(v, 1) ELSE 2

\* The steps the frame at depth d of the stack still has to take.
Remaining(d) ==
    LET f == stack[d]
        n == IF f.phase = "array" THEN f.i + 1 ELSE f.i IN
    CASE f.phase = "enter"              -> Work(f.expected)
      [] f.phase = "return"             -> 1
      [] f.phase \in {"array", "object"} ->
             2 + WorkFrom(f.expected, IF d = Len(stack) THEN n ELSE n + 1)
      [] OTHER                          -> 0

RECURSIVE SumRemaining(_)
SumRemaining(d) == IF d = 0 THEN 0 ELSE Remaining(d) + SumRemaining(d - 1)

RECURSIVE QueuedWork(_)
QueuedWork(q) == IF q = <<>> THEN 0 ELSE 3 + Work(Head(q).expected) + QueuedWork(Tail(q))

\* A bound on the steps the batch still takes.
Rank ==
    QueuedWork(queue)
    + CASE pc = "run"    -> 2 + SumRemaining(Len(stack))
        [] pc = "throw"  -> 1 + Len(stack)
        [] pc = "failed" -> 1
        [] OTHER         -> 0

Finished == pc = "idle" /\ queue = <<>> /\ stack = <<>>

C7_Terminates ==
    /\ [][Rank' < Rank]_vars
    /\ [](Rank >= 0)
    /\ [](Finished \/ ENABLED Next)
    /\ [](Len(stack) <= 1 + Depth(expected))
    /\ [][CallEnds => \/ outcome' = "passed" /\ assertionFailures' = assertionFailures
                      \/ outcome' = "failed"
                           /\ Len(assertionFailures') = Len(assertionFailures) + 1]_vars

C7_Witness ==
    /\ Len(stack) = 3
    /\ Depth(expected) = 2
    /\ top.phase = "return"

(***************************************************************************)
(* C8: when two records are compared, '<k> to be missing but was found' is *)
(* thrown only if every own key of expected is present in actual and its   *)
(* values compare equal.  Otherwise the discrepancy is that of the first   *)
(* key of expected, in enumeration order, that actual lacks                *)
(* ('<k> but was not found') or whose values do not compare equal (the     *)
(* child's message behind k); no later key of expected and no extra key of *)
(* actual is examined.                                                     *)
(***************************************************************************)
RecordThrows(f) == f.phase \in {"object", "extra"}

EarlierKeysPassed(f, n) ==
    \A j \in 1..n :
        /\ hasOwnProperty(f.actual, keys(f.expected)[j])
        /\ Append(f.path, keys(f.expected)[j]) \in passed

LaterKeysUntouched(f, n) ==
    \A j \in (n + 1)..Len(f.expected.props) :
        Append(f.path, keys(f.expected)[j]) \notin visited

C8_State ==
    (Thrown /\ RecordThrows(top)) =>
        IF top.phase = "extra"
        THEN /\ EarlierKeysPassed(top, Len(top.expected.props))
             /\ \E j \in 1..Len(top.actual.props) :
                  /\ ~hasOwnProperty(top.expected, top.actual.props[j][1])
                  /\ error = top.actual.props[j][1] \o " to be missing but was found"
        ELSE LET k == keys(top.expected)[top.i] IN
             /\ top.i \in 1..Len(top.expected.props)
             /\ EarlierKeysPassed(top, top.i - 1)
             /\ LaterKeysUntouched(top, top.i)
             /\ IF hasOwnProperty(top.actual, k)
                THEN /\ Append(top.path, k) \in visited
                     /\ Append(top.path, k) \notin passed
                ELSE /\ Append(top.path, k) \notin visited
                     /\ error = k \o " but was not found"

\* The key loop of the frame under the top is about to throw again the error
\* of the call it made.
ObjectCatches ==
    /\ pc = "throw"
    /\ Len(stack) > 1
    /\ stack[Len(stack) - 1].phase = "object"

C8_RecordDiscrepancy ==
    [][/\ C8_State'
       /\ ObjectCatches =>
            LET f == stack[Len(stack) - 1] IN
            \E d \in Dividers : error' = keys(f.expected)[f.i] \o d \o error]_vars

C8_Witness ==
    /\ Thrown
    /\ top.phase = "extra"
    /\ top.expected = Rec(<< <<"k", Num(1)>> >>)
    /\ top.actual = Rec(<< <<"m", NaN>>, <<"k", Num(1)>> >>)
    /\ error = "m to be missing but was found"

(***************************************************************************)
(* C9: the divider rule.  The error of the call made on a child is thrown  *)
(* again as the segment ('[i]' or the key), then the divider, then the     *)
(* child's message unchanged; the divider is empty if the child (the       *)
(* element or property of expected) is an array, a space if it is a        *)
(* primitive, and '.' only if it is a record; the array loop and the key   *)
(* loop apply the same rule.                                               *)
(***************************************************************************)
\* The child the loop of frame f has made its call on.
ChildOf(f) ==
    IF f.phase = "array" THEN f.expected.elems[f.i + 1]
    ELSE get(f.expected, keys(f.expected)[f.i])

SegmentOf(f) ==
    IF f.phase = "array" THEN "[" \o ToString(f.i) \o "]" ELSE keys(f.expected)[f.i]

IsPrimitiveValue(v) == v.t \in {"string", "number", "boolean"}

\* The claim as stated: '.' only before the message of a record.
C9_DotOnlyForRecords ==
    [][(ArrayCatches \/ ObjectCatches) =>
          LET f == stack[Len(stack) - 1] IN
          \E d \in Dividers :
              /\ error' = SegmentOf(f) \o d \o error
              /\ ChildOf(f).t = "array" => d = ""
              /\ IsPrimitiveValue(ChildOf(f)) => d = " "
              /\ d = "." => ChildOf(f).t = "record"]_vars

\* The claim as amended: '.' before the message of a record or of null.
C9_DividerRule ==
    [][/\ (ArrayCatches \/ ObjectCatches) =>
            LET f == stack[Len(stack) - 1]
                d == CASE ChildOf(f).t = "array"      -> ""
                       [] IsPrimitiveValue(ChildOf(f)) -> " "
                       [] OTHER                        -> "." IN
            /\ ChildOf(f).t \in {"array", "string", "number", "boolean", "record", "null"}
            /\ error' = SegmentOf(f) \o d \o error
            /\ Thrown'
       /\ (pc = "failed" /\ expected = complexObject1 /\ actual = complexObject2) =>
            error = message \o " Expected propB.propA[1].propB \"b\" but found \"c\""]_vars

C9_Witness ==
    /\ Thrown
    /\ Len(stack) = 1
    /\ top.expected = Rec(<< <<"k", Null>> >>)
    /\ top.actual = Rec(<< <<"k", Rec(<<>>)>> >>)
    /\ error = "k.type null but found type Object"

(***************************************************************************)
(* C10: two arrays of different lengths give                               *)
(* 'Array length <expected's> but found <actual's>' whatever they hold:    *)
(* none of their elements is compared.                                     *)
(***************************************************************************)
IsProperPrefix(p, q) == Len(p) < Len(q) /\ SubSeq(q, 1, Len(p)) = p

C10_LengthMismatch ==
    \A d \in 1..Len(stack) :
        LET f == stack[d] IN
        (f.expected.t = "array" /\ f.actual.t = "array"
           /\ Len(f.expected.elems) # Len(f.actual.elems)) =>
            /\ \/ f.phase = "enter"
               \/ /\ f.phase = "throw"
                  /\ d = Len(stack)
                  /\ pc = "throw"
                  /\ error = "Array length " \o ToString(Len(f.expected.elems))
                               \o " but found " \o ToString(Len(f.actual.elems))
            /\ \A q \in visited : ~IsProperPrefix(f.path, q)

C10_Witness ==
    /\ Thrown
    /\ top.expected = Arr(<<Num(1), Num(2)>>)
    /\ top.actual = Arr(<<Num(2), Num(2), Num(1)>>)
    /\ error = "Array length 2 but found 3"

====
